---- MODULE Spec2Model ----
(***************************************************************************)
(* Weight Stock Platform: the trading and accounting core.                 *)
(*                                                                         *)
(* The server side is modelled from the listings of ADR-007                *)
(* (execute_trade, recharge, calculate_total_pnl), the browser side from   *)
(* the React components (BuyerDashboard, TradeDialog, RechargeDialog).     *)
(* Money is counted in whole units (cents), so prices and amounts are      *)
(* integers; average costs are exact rationals.                            *)
(***************************************************************************)
EXTENDS Integers, Sequences, FiniteSets, TLC

\* ---------------------------------------------------------------- bounds
MaxPrice == 2
MaxListedPrice == 1
MaxQty == 2
MaxAmount == 2
MaxBalance == 2
MaxTrades == 3
MaxBalInflight == 2
MaxPnlInflight == 1
MaxTxns == 2
MaxLogLen == 5
MaxPortfolioLen == 3
MaxMarketTrades == 1
MaxDialogTrades == 2
MaxRefreshTrades == 1
TicksPerDelay == 2
MaxSearchInflight == 2
MaxWeight == 20
MaxBaseline == 1
MaxBasePrice == 1
MaxSlope == 3
MaxTyped == 2
MaxFilledInflight == 1
MaxRecords == 2
MaxUploads == 2
MaxUploadPrice == 2

\* ----------------------------------------------------------------- users
Buyers == {"b1"}
Sellers == {"s1", "s2"}
ListedSellers == {"s1"}
Users == Buyers \cup Sellers
Me == "b1"
Sides == {"buy", "sell"}
Prices == 1..MaxPrice
ListedPrices == 1..MaxListedPrice
Quantities == 1..MaxQty
None == [none |-> TRUE]

VARIABLES
    balance,        \* balance table: userId -> balance
    trades,         \* trade table, in insertion order
    cBalance,       \* BuyerDashboard.balance
    tradeOpen,      \* BuyerDashboard.tradeOpen
    selectedSeller, \* BuyerDashboard.selectedSeller
    side,           \* TradeDialog.side
    loading,        \* TradeDialog.loading
    error,          \* TradeDialog.error
    pnl,            \* TradeDialog.pnl
    balReq,         \* GET /buyer/balance requests not yet served
    balResp,        \* GET /buyer/balance responses not yet delivered
    pnlReq,         \* GET /buyer/pnl/:id requests not yet served
    pnlResp,        \* GET /buyer/pnl/:id responses not yet delivered
    tradeReq,       \* POST /buyer/trade request not yet served
    tradeResp,      \* POST /buyer/trade response not yet delivered
    rechargeOpen,   \* BuyerDashboard.rechargeOpen
    rechLoading,    \* RechargeDialog.loading
    rechError,      \* RechargeDialog.error
    rechReq,        \* POST /buyer/recharge request not yet served
    rechResp,       \* POST /buyer/recharge response not yet delivered
    txns,           \* server requests in progress (concurrent server model)
    rowLock,        \* balance rows locked by SELECT ... FOR UPDATE
    recharged,      \* per user, the sum of the amounts of committed recharges
    pLog,           \* transactions given to calculate_total_pnl
    pState,         \* its running total_quantity, total_cost, realized_pnl
    pPrice,         \* per user, the user's latest PriceRecord
    cParams,        \* the arguments of a call of calculatePrice
    cPrice,         \* its price before the rounding and its result, in cents
    coef,           \* user row of the seller: baselineWeight, basePrice, kUp, kDown
    priceTable,     \* price table: rows id, sellerId, date, session, price (cents)
    wLoading,       \* WeightInput.loading
    wSettings,      \* WeightInput.settings
    wWeight,        \* WeightInput.weight
    wSession,       \* WeightInput.session
    wDate,          \* WeightInput.date
    calculatedPrice, \* WeightInput.calculatedPrice
    filledSessions, \* WeightInput.filledSessions
    submitting,     \* WeightInput.submitting
    wError,         \* WeightInput.error
    wSuccess,       \* WeightInput.success
    setReq,         \* GET /seller/settings not yet answered
    filledReq,      \* GET /seller/filled-sessions requests not yet answered, by date
    upReq,          \* POST /seller/upload-price request not yet served
    upWeight,       \* the weight that was in the form when upReq was sent
    upResp,         \* POST /seller/upload-price response not yet delivered
    upTxns,         \* upload requests in progress (concurrent server model)
    sCard,          \* SellerSettings: formData, loading, error
    sellers,        \* SellerList.sellers: the rows shown, id and latestPrice
    searchQuery,    \* SellerList.searchQuery
    debouncedSearch, \* SellerList.debouncedSearch
    timerOn,        \* the timer of the debounce effect is pending
    elapsed,        \* ms since searchQuery last changed, up to the delay
    searchReq,      \* GET /prices/sellers requests not yet answered, by search
    refreshKey,     \* BuyerDashboard.refreshKey
    histKey,        \* the refreshTrigger the effect of TradeHistory last ran with
    histReq,        \* GET /buyer/trades requests not yet answered
    histShown,      \* TradeHistory.trades
    holdKey,        \* the refreshTrigger the effect of HoldingsCard last ran with
    holdReq,        \* GET /buyer/holdings requests not yet answered
    holdShown,      \* HoldingsCard.holdings
    cardReq,        \* the requests of PnLCard.loadData not yet answered
    cardShown       \* PnLCard.buyerAllTimeData

dbVars == <<balance, trades>>
uiVars == <<cBalance, tradeOpen, selectedSeller, side, loading, error, pnl,
            balReq, balResp, pnlReq, pnlResp, tradeReq, tradeResp,
            rechargeOpen, rechLoading, rechError, rechReq, rechResp>>
txVars == <<txns, rowLock, recharged>>
pnlVars == <<pLog, pState, pPrice>>
calcVars == <<cParams, cPrice>>
mktVars == <<coef, priceTable>>
wVars == <<wLoading, wSettings, wWeight, wSession, wDate, calculatedPrice,
           filledSessions, submitting, wError, wSuccess, setReq, filledReq, upReq, upWeight, upResp>>
upVars == <<upTxns>>
setVars == <<sCard>>
sellerVars == <<mktVars, wVars, upVars, setVars>>
listVars == <<sellers>>
searchVars == <<searchQuery, debouncedSearch, timerOn, elapsed, searchReq>>
refreshVars == <<histKey, histReq, histShown, holdKey, holdReq, holdShown,
                 cardReq, cardShown>>
keyVars == <<refreshKey>>
buyerVars == <<listVars, searchVars, refreshVars>>
vars == <<dbVars, uiVars, txVars, pnlVars, calcVars, sellerVars, buyerVars, keyVars>>
notUiKey == <<txVars, pnlVars, calcVars, sellerVars, buyerVars>>
notUi == <<notUiKey, keyVars>>
notTx == <<uiVars, pnlVars, calcVars, sellerVars, buyerVars, keyVars>>
notPnl == <<dbVars, uiVars, txVars, calcVars, sellerVars, buyerVars, keyVars>>
notCalc == <<dbVars, uiVars, txVars, pnlVars, sellerVars, buyerVars, keyVars>>
notSeller == <<dbVars, uiVars, txVars, pnlVars, calcVars, buyerVars, keyVars>>
notBuyer == <<dbVars, uiVars, txVars, pnlVars, calcVars, sellerVars, keyVars>>

\* ------------------------------------------------------------- rationals
RECURSIVE GCD(_, _)
GCD(a, b) == IF b = 0 THEN a ELSE GCD(b, a % b)

Abs(x) == IF x < 0 THEN -x ELSE x

Rat(n, d) ==
    LET g == GCD(Abs(n), Abs(d))
        s == IF d < 0 THEN -1 ELSE 1
    IN  [n |-> s * (n \div g), d |-> s * (d \div g)]

RInt(i) == [n |-> i, d |-> 1]
RAdd(x, y) == Rat(x.n * y.d + y.n * x.d, x.d * y.d)
RSub(x, y) == Rat(x.n * y.d - y.n * x.d, x.d * y.d)
RMul(x, y) == Rat(x.n * y.n, x.d * y.d)
RDivInt(x, i) == Rat(x.n, x.d * i)

\* ------------------------------------------- JavaScript numbers (IEEE 754)
\* Natural numbers of any size, as sequences of 15-bit limbs, lowest limb first.
LimbBits == 15
Limb == 32768
\* The bits of a double's significand.
MantBits == 53

RECURSIVE NatNorm(_)
NatNorm(a) ==
    IF a = <<>> THEN a
    ELSE IF a[Len(a)] = 0 THEN NatNorm(SubSeq(a, 1, Len(a) - 1)) ELSE a

RECURSIVE NatOf(_)
NatOf(n) == IF n = 0 THEN <<>> ELSE <<n % Limb>> \o NatOf(n \div Limb)

RECURSIVE NatToInt(_)
NatToInt(a) == IF a = <<>> THEN 0 ELSE a[1] + Limb * NatToInt(Tail(a))

RECURSIVE NatAddC(_, _, _)
NatAddC(a, b, c) ==
    IF a = <<>> /\ b = <<>> THEN (IF c = 0 THEN <<>> ELSE <<c>>)
    ELSE LET x == IF a = <<>> THEN 0 ELSE a[1]
             y == IF b = <<>> THEN 0 ELSE b[1]
             s == x + y + c
         IN  <<s % Limb>> \o NatAddC(IF a = <<>> THEN a ELSE Tail(a),
                                     IF b = <<>> THEN b ELSE Tail(b), s \div Limb)

NatAdd(a, b) == NatAddC(a, b, 0)

RECURSIVE NatSubB(_, _, _)
NatSubB(a, b, br) ==
    IF a = <<>> THEN <<>>
    ELSE LET y == IF b = <<>> THEN 0 ELSE b[1]
             d == a[1] - y - br
         IN  <<IF d < 0 THEN d + Limb ELSE d>>
               \o NatSubB(Tail(a), IF b = <<>> THEN b ELSE Tail(b), IF d < 0 THEN 1 ELSE 0)

\* a - b for a >= b
NatSub(a, b) == NatNorm(NatSubB(a, b, 0))

RECURSIVE NatCmpAt(_, _, _)
NatCmpAt(a, b, i) ==
    IF i = 0 THEN 0
    ELSE IF a[i] # b[i] THEN (IF a[i] < b[i] THEN -1 ELSE 1)
    ELSE NatCmpAt(a, b, i - 1)

NatCmp(a, b) ==
    IF Len(a) # Len(b) THEN (IF Len(a) < Len(b) THEN -1 ELSE 1)
    ELSE NatCmpAt(a, b, Len(a))

RECURSIVE NatMulLimb(_, _, _)
NatMulLimb(a, d, c) ==
    IF a = <<>> THEN (IF c = 0 THEN <<>> ELSE <<c>>)
    ELSE LET t == a[1] * d + c
         IN  <<t % Limb>> \o NatMulLimb(Tail(a), d, t \div Limb)

RECURSIVE NatMul(_, _)
NatMul(a, b) ==
    IF a = <<>> \/ b = <<>> THEN <<>>
    ELSE NatAdd(NatNorm(NatMulLimb(a, b[1], 0)), NatNorm(<<0>> \o NatMul(a, Tail(b))))

\* Quotient and remainder of a by a divisor below Limb.
RECURSIVE NatDivLimb(_, _)
NatDivLimb(a, d) ==
    IF a = <<>> THEN [q |-> <<>>, r |-> 0]
    ELSE LET hi == NatDivLimb(Tail(a), d)
             cur == hi.r * Limb + a[1]
         IN  [q |-> <<cur \div d>> \o hi.q, r |-> cur % d]

RECURSIVE BitsOf(_)
BitsOf(n) == IF n = 0 THEN 0 ELSE 1 + BitsOf(n \div 2)

BitLen(a) == IF a = <<>> THEN 0 ELSE LimbBits * (Len(a) - 1) + BitsOf(a[Len(a)])

NatShl(a, s) ==
    NatNorm([i \in 1..(s \div LimbBits) |-> 0] \o NatMulLimb(a, 2^(s % LimbBits), 0))

NatShr(a, s) ==
    LET k == s \div LimbBits
        t == IF k >= Len(a) THEN <<>> ELSE SubSeq(a, k + 1, Len(a))
    IN  NatNorm(NatDivLimb(t, 2^(s % LimbBits)).q)

\* A double other than NaN and the infinities: (-1)^neg * m * 2^e, with m of
\* exactly MantBits bits, or zero.
FZero == [neg |-> FALSE, m |-> <<>>, e |-> 0]

\* The double nearest to n * 2^e, ties to the even significand.
FRound(neg, n, e) ==
    LET len == BitLen(n)
    IN  IF n = <<>> THEN FZero
        ELSE IF len <= MantBits
        THEN [neg |-> neg, m |-> NatShl(n, MantBits - len), e |-> e - (MantBits - len)]
        ELSE LET s == len - MantBits
                 q == NatShr(n, s)
                 r == NatSub(n, NatShl(q, s))
                 c == NatCmp(NatShl(r, 1), NatShl(<<1>>, s))
                 up == c > 0 \/ (c = 0 /\ q[1] % 2 = 1)
                 q2 == IF up THEN NatAdd(q, <<1>>) ELSE q
             IN  IF BitLen(q2) > MantBits
                 THEN [neg |-> neg, m |-> NatShr(q2, 1), e |-> e + s + 1]
                 ELSE [neg |-> neg, m |-> q2, e |-> e + s]

FNeg(x) == IF x.m = <<>> THEN x ELSE [x EXCEPT !.neg = ~x.neg]

FMul(x, y) ==
    IF x.m = <<>> \/ y.m = <<>> THEN FZero
    ELSE FRound(x.neg # y.neg, NatMul(x.m, y.m), x.e + y.e)

FAdd(x, y) ==
    IF x.m = <<>> THEN y
    ELSE IF y.m = <<>> THEN x
    ELSE LET e == IF x.e < y.e THEN x.e ELSE y.e
             xm == NatShl(x.m, x.e - e)
             ym == NatShl(y.m, y.e - e)
             c == NatCmp(xm, ym)
         IN  IF x.neg = y.neg THEN FRound(x.neg, NatAdd(xm, ym), e)
             ELSE IF c = 0 THEN FZero
             ELSE IF c > 0 THEN FRound(x.neg, NatSub(xm, ym), e)
             ELSE FRound(y.neg, NatSub(ym, xm), e)

FSub(x, y) == FAdd(x, FNeg(y))

\* The double a decimal literal n/d denotes (d a power of ten below Limb).
FOfDecimal(n, d) ==
    IF n = 0 THEN FZero
    ELSE LET a == NatShl(NatOf(IF n < 0 THEN -n ELSE n), 75)
             dv == NatDivLimb(a, d)
             sticky == IF dv.r = 0 THEN <<>> ELSE <<1>>
         IN  FRound(n < 0, NatAdd(NatShl(NatNorm(dv.q), 1), sticky), -76)

\* Math.round: the integer nearest to x, ties towards +Infinity.
MathRound(x) ==
    IF x.m = <<>> THEN 0
    ELSE IF x.e >= 0 THEN (IF x.neg THEN -1 ELSE 1) * NatToInt(NatShl(x.m, x.e))
    ELSE LET k == -x.e
             h == NatShl(<<1>>, k - 1)
         IN  IF x.neg THEN -NatToInt(NatShr(NatSub(NatAdd(x.m, h), <<1>>), k))
             ELSE NatToInt(NatShr(NatAdd(x.m, h), k))

\* ------------------------------------------------------ priceCalculator.ts
\* The numbers that decimal texts with one and with two decimals denote.
Tenths(n) == FOfDecimal(n, 10)
Hundredths(n) == FOfDecimal(n, 100)

\* The exact value of x - v / 10000 is at most 10000 / 2^40 in size.
WithinRounding(x, v) ==
    LET k == IF x.e < 0 THEN -x.e ELSE 0
        a == NatShl(NatMul(x.m, NatOf(10000)), x.e + k)
        b == NatShl(NatOf(Abs(v)), k)
        diff == IF x.m = <<>> THEN b
                ELSE IF x.neg # (v < 0) THEN NatAdd(a, b)
                ELSE IF NatCmp(a, b) >= 0 THEN NatSub(a, b) ELSE NatSub(b, a)
    IN  NatCmp(NatShl(diff, 40), NatShl(NatOf(10000), k)) <= 0

\* calculatePrice with kUp and kDown taken for one another.
UnroundedPriceSlopesSwapped(weight, baselineWeight, basePrice, kUp, kDown) ==
    LET weightDiff == FSub(weight, baselineWeight)
    IN  IF ~weightDiff.neg
        THEN FAdd(basePrice, FMul(weightDiff, kDown))
        ELSE FAdd(basePrice, FMul(weightDiff, kUp))

\* calculatePrice before the rounding: lines 44-53.
UnroundedPrice(weight, baselineWeight, basePrice, kUp, kDown) ==
    LET weightDiff == FSub(weight, baselineWeight)
    IN  IF ~weightDiff.neg
        THEN FAdd(basePrice, FMul(weightDiff, kUp))
        ELSE FAdd(basePrice, FMul(weightDiff, kDown))

\* Math.round(price * 100) / 100, as the number of cents c of the result c / 100.
RoundToCents(price) == MathRound(FMul(price, FOfDecimal(100, 1)))

\* calculatePrice on a weight in tenths and coefficients in hundredths.
CalculatePrice(params) ==
    LET price == UnroundedPrice(Tenths(params.weight), Hundredths(params.baselineWeight),
                                Hundredths(params.basePrice), Hundredths(params.kUp),
                                Hundredths(params.kDown))
    IN  [price |-> price, cents |-> RoundToCents(price)]

\* ----------------------------------------------------------- WeightInput
\* A text of a form field is None when the field is empty and otherwise the
\* decimal it spells: [tenths |-> n] in the weight field (step 0.1),
\* [val |-> n] in hundredths in the fields of the coefficients.  A NULL
\* column of the user row and a null field of the settings are None too.

CoefNames == {"baselineWeight", "basePrice", "kUp", "kDown"}
Sessions == {"AM", "PM"}
Dates == {"d1", "d2"}
Today == "d1"

\* RegisterForm.handleSubmit: a seller field goes into the request, parsed,
\* only when its text is not empty; the column of a field left out is NULL.
RegisterData(form) == [c \in CoefNames |-> form[c]]

\* The texts a seller may put into the four fields at registration.
RegisterForms ==
    [baselineWeight : {None, [val |-> 10]},
     basePrice : {None, [val |-> 100]},
     kUp : {None, [val |-> 1]},
     kDown : {None, [val |-> 10]}]

\* The texts typed into the weight field.
WeightTexts == {[tenths |-> n] : n \in (0 - 1)..MaxTyped}

\* GET /seller/settings and setSettings(response.data): the four columns of
\* the seller's row, null where the column is NULL.
SettingsOf(row) == [c \in CoefNames |-> row[c]]

HasValidSettingsLoaded(settings) == settings # None

\* hasValidSettings: settings loaded and none of the four fields null.  It
\* enables the weight field and the button and hides the warning.
HasValidSettings(settings) ==
    /\ settings # None
    /\ \A c \in CoefNames : settings[c] # None

\* The effect on [weight, settings]: a price is calculated when the weight
\* text is not empty and every coefficient is set, and is null otherwise.
EffectPrice(weight, settings) ==
    IF /\ weight # None
       /\ settings # None
       /\ settings.baselineWeight # None
       /\ settings.basePrice # None
       /\ settings.kUp # None
       /\ settings.kDown # None
    THEN [cents |-> CalculatePrice([weight |-> weight.tenths,
                                    baselineWeight |-> settings.baselineWeight.val,
                                    basePrice |-> settings.basePrice.val,
                                    kUp |-> settings.kUp.val,
                                    kDown |-> settings.kDown.val]).cents]
    ELSE None

\* EffectPrice on every weight text and every settings of the model,
\* evaluated once.
EffectPrices ==
    [text \in WeightTexts \cup {None},
     settings \in {None} \cup {SettingsOf(RegisterData(form)) : form \in RegisterForms}
        |-> EffectPrice(text, settings)]

\* SellerSettings.loadSettings: the text of each field, '' for null.
FormDataOf(settings) == [c \in CoefNames |-> settings[c]]

AllSessionsFilled(filled) == Cardinality(filled) = 2

UploadRequestWithWeight(weight, session, date, price) ==
    [date |-> date, session |-> session, price |-> price.cents,
     weight |-> weight]

\* The body of the request handleSubmit sends, of the state in its scope.
UploadRequest(weight, session, date, price) ==
    [date |-> date, session |-> session, price |-> price.cents]

\* loadFilledSessions: the session selected once the filled sessions of the
\* date are known.
AutoSelect(session, filled) ==
    IF "AM" \in filled /\ "PM" \notin filled THEN "PM"
    ELSE IF "AM" \notin filled THEN "AM"
    ELSE session

\* ------------------------------------------------------------ price table
KeyOf(seller, req) == [sellerId |-> seller, date |-> req.date, session |-> req.session]
RowKey(row) == [sellerId |-> row.sellerId, date |-> row.date, session |-> row.session]
RowsOf(table, key) == {r \in table : RowKey(r) = key}
NextId(table) == Cardinality(table) + 1

InsertPriceNoUniqueKey(table, seller, req) ==
    [ok |-> TRUE,
     table |-> table \cup {[id |-> NextId(table), sellerId |-> seller,
                            date |-> req.date, session |-> req.session,
                            price |-> req.price]}]

\* INSERT into the price table under UNIQUE KEY (sellerId, date, session):
\* the row is added unless a row with its key exists, when the statement fails.
InsertPrice(table, seller, req) ==
    IF RowsOf(table, KeyOf(seller, req)) # {}
    THEN [ok |-> FALSE, table |-> table]
    ELSE [ok |-> TRUE,
          table |-> table \cup {[id |-> NextId(table), sellerId |-> seller,
                                 date |-> req.date, session |-> req.session,
                                 price |-> req.price]}]

\* GET /seller/filled-sessions: the sessions of the date that have a row.
FilledSessionsOf(table, seller, date) ==
    {r.session : r \in {x \in table : x.sellerId = seller /\ x.date = date}}

\* POST /seller/upload-price: a request for a filled session is rejected,
\* any other inserts its row.
UploadPrice(table, seller, req) ==
    IF req.session \in FilledSessionsOf(table, seller, req.date)
    THEN [ok |-> FALSE, table |-> table]
    ELSE InsertPrice(table, seller, req)

\* ------------------------------------------------- calculate_total_pnl
\* A transaction of the trade table.
Tx(b, s, p, q, sd) == [buyer |-> b, seller |-> s, price |-> p, qty |-> q, side |-> sd]

InitPnl == [qty |-> 0, cost |-> RInt(0), realized |-> RInt(0)]

\* avg_cost = total_cost / total_quantity if total_quantity > 0 else 0
AvgCost(st) == IF st.qty > 0 THEN RDivInt(st.cost, st.qty) ELSE RInt(0)

\* One iteration of the loop over the transactions.
ApplyTx(st, tx) ==
    IF tx.side = "buy"
    THEN [st EXCEPT !.qty = st.qty + tx.qty,
                    !.cost = RAdd(st.cost, RInt(tx.price * tx.qty))]
    ELSE IF st.qty > 0
         THEN LET avg == AvgCost(st)
              IN  [qty |-> st.qty - tx.qty,
                   cost |-> RSub(st.cost, RMul(avg, RInt(tx.qty))),
                   realized |-> RAdd(st.realized,
                                     RMul(RSub(RInt(tx.price), avg), RInt(tx.qty)))]
         ELSE st

RECURSIVE Replay(_)
Replay(log) ==
    IF log = <<>> THEN InitPnl
    ELSE ApplyTx(Replay(SubSeq(log, 1, Len(log) - 1)), log[Len(log)])

\* The transactions of one (buyer, seller) pair, as GET /buyer/pnl/:sellerId scopes them.
PairLog(log, b, s) == SelectSeq(log, LAMBDA tx : tx.buyer = b /\ tx.seller = s)

\* PnLData.position of the pair.
Shares(log, b, s) == Replay(PairLog(log, b, s)).qty

\* The transactions of one buyer: Transaction.query.filter_by(buyer_id=self.id).all()
BuyerLog(log, b) == SelectSeq(log, LAMBDA tx : tx.buyer = b)

\* PnLData.costBasis of the pair.
CostBasis(log, b, s) == AvgCost(Replay(PairLog(log, b, s)))

\* Python's round(x, 2): the nearest hundredth, a tie going to the even one.
Round2(x) ==
    LET t == x.n * 100
        q == t \div x.d
        r == t % x.d
    IN  Rat(IF 2 * r > x.d THEN q + 1
            ELSE IF 2 * r = x.d THEN q + (q % 2)
            ELSE q, 100)

\* calculate_total_pnl, lines 94-105: the unrealized P&L of the holdings st, with
\* the price of PriceRecord.query.filter_by(user_id=self.id)...first(), self the buyer.
UnrealizedPnl(st, latest, self) ==
    IF st.qty > 0 /\ latest[self] # None
    THEN RSub(RInt(latest[self].price * st.qty), RMul(AvgCost(st), RInt(st.qty)))
    ELSE RInt(0)

\* calculate_total_pnl: the dict returned for the buyer self.
CalculateTotalPnl(log, latest, self) ==
    LET st == Replay(BuyerLog(log, self))
        unrealized == UnrealizedPnl(st, latest, self)
    IN  [realized_pnl |-> Round2(st.realized),
         unrealized_pnl |-> Round2(unrealized),
         total_pnl |-> Round2(RAdd(st.realized, unrealized))]

\* TotalPnLData.totalInvested: the sum of the buy-side costs of the buyer's log.
RECURSIVE TotalInvested(_)
TotalInvested(log) ==
    IF log = <<>> THEN 0
    ELSE TotalInvested(Tail(log))
           + (IF log[1].side = "buy" THEN log[1].price * log[1].qty ELSE 0)

\* returnPercent as the plain ratio, the factor 100 forgotten.
ReturnPercentAsRatio(totalPnl, totalInvested) ==
    IF totalInvested = 0 THEN RInt(0) ELSE RDivInt(totalPnl, totalInvested)

\* TotalPnLData.returnPercent.
ReturnPercent(totalPnl, totalInvested) ==
    IF totalInvested = 0 THEN RInt(0)
    ELSE RMul(RDivInt(totalPnl, totalInvested), RInt(100))

\* GET /buyer/total-pnl as the dashboard reads it.
TotalPnLData(log, latest, self) ==
    LET r == CalculateTotalPnl(log, latest, self)
        invested == TotalInvested(BuyerLog(log, self))
    IN  [realizedPnl |-> r.realized_pnl,
         unrealizedPnl |-> r.unrealized_pnl,
         totalPnl |-> r.total_pnl,
         totalInvested |-> invested,
         returnPercent |-> ReturnPercent(r.total_pnl, invested)]

\* func.sum(Transaction.total_price) over the rows of one seller and one type.
RECURSIVE SumTotalPrice(_, _, _)
SumTotalPrice(log, seller, type) ==
    IF log = <<>> THEN 0
    ELSE SumTotalPrice(Tail(log), seller, type)
           + (IF log[1].seller = seller /\ log[1].side = type
              THEN log[1].price * log[1].qty ELSE 0)

\* get_earnings without the filter on transaction_type.
TotalReceivedAnyType(log, seller) ==
    SumTotalPrice(log, seller, "buy") + SumTotalPrice(log, seller, "sell")

\* get_earnings: buy_earnings, the sum of the incoming payments.
TotalReceived(log, seller) == SumTotalPrice(log, seller, "buy")

\* SellerEarningsData.totalPaidOut: what the seller paid back on sell trades.
TotalPaidOut(log, seller) == SumTotalPrice(log, seller, "sell")

\* GET /seller/earnings as the dashboard reads it.
SellerEarningsData(log, seller) ==
    [totalReceived |-> TotalReceived(log, seller),
     totalPaidOut |-> TotalPaidOut(log, seller),
     netEarnings |-> TotalReceived(log, seller) - TotalPaidOut(log, seller)]

\* ------------------------------------------------------- server handlers
\* execute_trade: the two balances after the trade, from the two balances read.
ExecuteTradeBalances(rb, rs, total, sd) ==
    IF sd = "buy"
    THEN [buyer |-> rb - total, seller |-> rs + total]
    ELSE [buyer |-> rb + total, seller |-> rs - total]

\* The insert into the trade table that goes with the balance updates.
AppendTrade(log, tx) == Append(log, tx)

\* Balance.recharge: balance.balance += amount
RechargeBalanceOverwrite(cur, amount) == amount

RechargeBalance(cur, amount) == cur + amount

\* A failure that leaves the buyer's row written (each update committed on its own).
RollbackKeepsBuyer(bal, b, s, staged) == [bal EXCEPT ![b] = staged.buyer]

\* What an exception before db.session.commit() leaves in the balance table:
\* the session is rolled back, the rows keep what they held.
Rollback(bal, b, s, staged) == bal

\* db.session.commit() of execute_trade: both rows in one transaction.
CommitBalances(bal, b, s, staged) ==
    [bal EXCEPT ![b] = staged.buyer, ![s] = staged.seller]

\* ---------------------------------------------------------- the browser
\* What the user can have typed into the quantity field.
QuantityInputs == {"abc", "0"} \cup {ToString(q) : q \in Quantities}

\* A JavaScript number: NaN, or a value.
NaN == [nan |-> TRUE, val |-> 0]
Num(i) == [nan |-> FALSE, val |-> i]

\* parseInt(quantity)
ParseInt(str) ==
    IF \E i \in 0..MaxQty : ToString(i) = str
    THEN Num(CHOOSE i \in 0..MaxQty : ToString(i) = str)
    ELSE NaN

\* What the user can have typed into the amount field.
AmountInputs == {"abc", "0", "-1"} \cup {ToString(a) : a \in 1..MaxAmount}

\* parseFloat(amount)
ParseFloat(str) ==
    IF str = "-1" THEN Num(-1)
    ELSE IF \E i \in 0..MaxAmount : ToString(i) = str
         THEN Num(CHOOSE i \in 0..MaxAmount : ToString(i) = str)
         ELSE NaN

Outstanding == balReq + Cardinality(balResp)
PnlOutstanding == Cardinality(pnlReq) + Cardinality(pnlResp)

\* A server request slot: what the request carries and where its handler stands.
IdleTxn == [pc |-> "idle", kind |-> "none", buyer |-> "b1", seller |-> "s1", price |-> 0,
            qty |-> 0, side |-> "buy", amount |-> 0, readB |-> 0, readS |-> 0]

InitDb ==
    /\ balance = [u \in Users |-> 0]
    /\ trades = <<>>

InitUi ==
    /\ cBalance = 0
    /\ tradeOpen = FALSE
    /\ selectedSeller = None
    /\ side = "buy"
    /\ loading = FALSE
    /\ error = ""
    /\ pnl = None
    /\ balReq = 1
    /\ balResp = {}
    /\ pnlReq = {}
    /\ pnlResp = {}
    /\ tradeReq = None
    /\ tradeResp = None
    /\ rechargeOpen = FALSE
    /\ rechLoading = FALSE
    /\ rechError = FALSE
    /\ rechReq = None
    /\ rechResp = None

InitTx ==
    /\ txns = [t \in 1..MaxTxns |-> IdleTxn]
    /\ rowLock = [u \in Users |-> 0]
    /\ recharged = [u \in Buyers |-> 0]

InitPnlVars ==
    /\ pLog = <<>>
    /\ pState = InitPnl
    /\ pPrice = [u \in Users |-> None]

InitCalc ==
    /\ cParams = None
    /\ cPrice = None

NoUpload == [pc |-> "idle"]

InitSeller ==
    /\ coef = None
    /\ priceTable = {}
    /\ wLoading = TRUE
    /\ wSettings = None
    /\ wWeight = None
    /\ wSession = "AM"
    /\ wDate = Today
    /\ calculatedPrice = None
    /\ filledSessions = {}
    /\ submitting = FALSE
    /\ wError = ""
    /\ wSuccess = ""
    /\ setReq = FALSE
    /\ filledReq = {}
    /\ upReq = None
    /\ upWeight = None
    /\ upResp = None
    /\ upTxns = [t \in 1..MaxUploads |-> NoUpload]
    /\ sCard = [formData |-> [c \in CoefNames |-> None],
                loading |-> TRUE, error |-> ""]

\* The components of the buyer dashboard when mounted: the effects have run,
\* the timer of SellerList is set and every component has requested its data.
InitBuyer ==
    /\ sellers = {}
    /\ searchQuery = ""
    /\ debouncedSearch = ""
    /\ timerOn = TRUE
    /\ elapsed = 0
    /\ searchReq = {""}
    /\ refreshKey = 0
    /\ histKey = 0
    /\ histReq = 1
    /\ histShown = <<>>
    /\ holdKey = 0
    /\ holdReq = 1
    /\ holdShown = {}
    /\ cardReq = 1
    /\ cardShown = None

Init ==
    InitDb /\ InitUi /\ InitTx /\ InitPnlVars /\ InitCalc /\ InitSeller /\ InitBuyer

\* BuyerDashboard.handleSelectSeller, and the TradeDialog effect on [open, seller].
HandleSelectSeller(s, p) ==
    /\ ~tradeOpen /\ ~rechargeOpen
    /\ PnlOutstanding < MaxPnlInflight
    /\ selectedSeller' = [id |-> s, price |-> p]
    /\ tradeOpen' = TRUE
    /\ pnlReq' = pnlReq \cup {s}
    /\ UNCHANGED <<cBalance, side, loading, error, pnl, balReq, balResp, pnlResp,
                   tradeReq, tradeResp, rechargeOpen, rechLoading, rechError,
                   rechReq, rechResp>>
    /\ UNCHANGED dbVars
    /\ UNCHANGED notUi

\* TradeDialog.handleSideChange; the sell toggle is disabled without a position.
HandleSideChange(newSide) ==
    /\ tradeOpen
    /\ newSide # side
    /\ newSide = "sell" => (pnl # None /\ pnl.position # 0)
    /\ side' = newSide
    /\ UNCHANGED <<cBalance, tradeOpen, selectedSeller, loading, error, pnl, balReq,
                   balResp, pnlReq, pnlResp, tradeReq, tradeResp, rechargeOpen,
                   rechLoading, rechError, rechReq, rechResp>>
    /\ UNCHANGED dbVars
    /\ UNCHANGED notUi

\* TradeDialog.handleSubmit with the quantity field holding `quantity`.
HandleSubmit(quantity) ==
    /\ tradeOpen /\ ~loading
    /\ LET parsed == ParseInt(quantity)
           qty == parsed.val
           price == IF selectedSeller = None THEN 0 ELSE selectedSeller.price
           total == price * qty
       IN  IF parsed.nan \/ qty <= 0
           THEN /\ error' = "invalidQuantity"
                /\ UNCHANGED <<loading, tradeReq>>
           ELSE IF side = "buy" /\ total > cBalance
           THEN /\ error' = "insufficientBalance"
                /\ UNCHANGED <<loading, tradeReq>>
           ELSE IF side = "sell" /\ pnl # None /\ qty > pnl.position
           THEN /\ error' = "insufficientPosition"
                /\ UNCHANGED <<loading, tradeReq>>
           ELSE IF selectedSeller = None
           THEN /\ error' = ""
                /\ UNCHANGED <<loading, tradeReq>>
           ELSE /\ error' = ""
                /\ loading' = TRUE
                /\ tradeReq' = [sellerId |-> selectedSeller.id, price |-> price,
                                quantity |-> qty, side |-> side]
    /\ UNCHANGED <<cBalance, tradeOpen, selectedSeller, side, pnl, balReq, balResp,
                   pnlReq, pnlResp, tradeResp, rechargeOpen, rechLoading, rechError,
                   rechReq, rechResp>>
    /\ UNCHANGED dbVars
    /\ UNCHANGED notUi

\* TradeDialog.handleClose
HandleClose ==
    /\ tradeOpen /\ ~loading
    /\ side' = "buy"
    /\ error' = ""
    /\ pnl' = None
    /\ tradeOpen' = FALSE
    /\ selectedSeller' = None
    /\ UNCHANGED <<cBalance, loading, balReq, balResp, pnlReq, pnlResp, tradeReq,
                   tradeResp, rechargeOpen, rechLoading, rechError, rechReq, rechResp>>
    /\ UNCHANGED dbVars
    /\ UNCHANGED notUi

\* POST /buyer/trade served for the logged-in buyer: execute_trade.
ServeTrade ==
    /\ tradeReq # None
    /\ tradeResp = None
    /\ Len(trades) < MaxTrades
    /\ LET r == tradeReq
           total == r.quantity * r.price
           staged == ExecuteTradeBalances(balance[Me], balance[r.sellerId], total, r.side)
       IN  /\ balance' = CommitBalances(balance, Me, r.sellerId, staged)
           /\ trades' = AppendTrade(trades, Tx(Me, r.sellerId, r.price, r.quantity, r.side))
           /\ tradeResp' = [ok |-> TRUE, balance |-> staged.buyer]
    /\ tradeReq' = None
    /\ UNCHANGED <<cBalance, tradeOpen, selectedSeller, side, loading, error, pnl,
                   balReq, balResp, pnlReq, pnlResp, rechargeOpen, rechLoading,
                   rechError, rechReq, rechResp>>
    /\ UNCHANGED notUi

\* POST /buyer/trade ends in an exception before the commit.
ServeTradeFail ==
    /\ tradeReq # None
    /\ tradeResp = None
    /\ LET r == tradeReq
           total == r.quantity * r.price
           staged == ExecuteTradeBalances(balance[Me], balance[r.sellerId], total, r.side)
       IN  balance' = Rollback(balance, Me, r.sellerId, staged)
    /\ tradeResp' = [ok |-> FALSE, balance |-> 0]
    /\ tradeReq' = None
    /\ UNCHANGED trades
    /\ UNCHANGED <<cBalance, tradeOpen, selectedSeller, side, loading, error, pnl,
                   balReq, balResp, pnlReq, pnlResp, rechargeOpen, rechLoading,
                   rechError, rechReq, rechResp>>
    /\ UNCHANGED notUi

\* The trade response reaches handleSubmit: onSuccess (handleTradeSuccess), then
\* setQuantity('1') and onClose(); or the catch branch.
DeliverTrade ==
    /\ tradeResp # None
    /\ IF tradeResp.ok
       THEN /\ Outstanding < MaxBalInflight
            /\ cBalance' = tradeResp.balance
            /\ refreshKey' = refreshKey + 1
            /\ balReq' = balReq + 1
            /\ tradeOpen' = FALSE
            /\ selectedSeller' = None
            /\ UNCHANGED error
       ELSE /\ error' = "tradeFailed"
            /\ UNCHANGED <<cBalance, refreshKey, balReq, tradeOpen, selectedSeller>>
    /\ loading' = FALSE
    /\ tradeResp' = None
    /\ UNCHANGED <<side, pnl, balResp, pnlReq, pnlResp, tradeReq, rechargeOpen,
                   rechLoading, rechError, rechReq, rechResp>>
    /\ UNCHANGED dbVars
    /\ UNCHANGED notUiKey

\* GET /buyer/balance served.
ServeGetBalance ==
    /\ balReq > 0
    /\ balReq' = balReq - 1
    /\ balResp' = balResp \cup {balance[Me]}
    /\ UNCHANGED <<cBalance, tradeOpen, selectedSeller, side, loading, error, pnl,
                   pnlReq, pnlResp, tradeReq, tradeResp, rechargeOpen, rechLoading,
                   rechError, rechReq, rechResp>>
    /\ UNCHANGED dbVars
    /\ UNCHANGED notUi

\* BuyerDashboard.loadData: setBalance(balanceRes.data.balance)
DeliverBalance(b) ==
    /\ b \in balResp
    /\ balResp' = balResp \ {b}
    /\ cBalance' = b
    /\ UNCHANGED <<tradeOpen, selectedSeller, side, loading, error, pnl, balReq,
                   pnlReq, pnlResp, tradeReq, tradeResp, rechargeOpen, rechLoading,
                   rechError, rechReq, rechResp>>
    /\ UNCHANGED dbVars
    /\ UNCHANGED notUi

\* GET /buyer/pnl/:sellerId served.
ServeGetPnL(s) ==
    /\ s \in pnlReq
    /\ pnlReq' = pnlReq \ {s}
    /\ pnlResp' = pnlResp \cup {[position |-> Shares(trades, Me, s), of |-> s]}
    /\ UNCHANGED <<cBalance, tradeOpen, selectedSeller, side, loading, error, pnl,
                   balReq, balResp, tradeReq, tradeResp, rechargeOpen, rechLoading,
                   rechError, rechReq, rechResp>>
    /\ UNCHANGED dbVars
    /\ UNCHANGED notUi

\* TradeDialog.loadPnL: setPnl(response.data)
DeliverPnL(r) ==
    /\ r \in pnlResp
    /\ pnlResp' = pnlResp \ {r}
    /\ pnl' = r
    /\ UNCHANGED <<cBalance, tradeOpen, selectedSeller, side, loading, error, balReq,
                   balResp, pnlReq, tradeReq, tradeResp, rechargeOpen, rechLoading,
                   rechError, rechReq, rechResp>>
    /\ UNCHANGED dbVars
    /\ UNCHANGED notUi

\* TradeDialog.loadPnL: the request fails and the catch ignores it.
FailPnL(s) ==
    /\ s \in pnlReq
    /\ pnlReq' = pnlReq \ {s}
    /\ UNCHANGED <<cBalance, tradeOpen, selectedSeller, side, loading, error, pnl,
                   balReq, balResp, pnlResp, tradeReq, tradeResp, rechargeOpen,
                   rechLoading, rechError, rechReq, rechResp>>
    /\ UNCHANGED dbVars
    /\ UNCHANGED notUi

\* The recharge button of the dashboard.
OpenRecharge ==
    /\ ~rechargeOpen /\ ~tradeOpen
    /\ rechargeOpen' = TRUE
    /\ UNCHANGED <<cBalance, tradeOpen, selectedSeller, side, loading, error, pnl,
                   balReq, balResp, pnlReq, pnlResp, tradeReq, tradeResp,
                   rechLoading, rechError, rechReq, rechResp>>
    /\ UNCHANGED dbVars
    /\ UNCHANGED notUi

\* RechargeDialog.handleSubmit with the amount field holding `amount`.
RechargeSubmit(amount) ==
    /\ rechargeOpen /\ ~rechLoading
    /\ LET amountNum == ParseFloat(amount)
       IN  IF amountNum.nan \/ amountNum.val <= 0
           THEN /\ rechError' = TRUE
                /\ UNCHANGED <<rechLoading, rechReq>>
           ELSE /\ balance[Me] + amountNum.val <= MaxBalance
                /\ rechError' = FALSE
                /\ rechLoading' = TRUE
                /\ rechReq' = [amount |-> amountNum.val]
    /\ UNCHANGED <<cBalance, tradeOpen, selectedSeller, side, loading, error, pnl,
                   balReq, balResp, pnlReq, pnlResp, tradeReq, tradeResp,
                   rechargeOpen, rechResp>>
    /\ UNCHANGED dbVars
    /\ UNCHANGED notUi

\* POST /buyer/recharge served: Balance.recharge.
ServeRecharge ==
    /\ rechReq # None
    /\ rechResp = None
    /\ LET new == RechargeBalance(balance[Me], rechReq.amount)
       IN  /\ balance' = [balance EXCEPT ![Me] = new]
           /\ rechResp' = [ok |-> TRUE, balance |-> new]
    /\ rechReq' = None
    /\ UNCHANGED trades
    /\ UNCHANGED <<cBalance, tradeOpen, selectedSeller, side, loading, error, pnl,
                   balReq, balResp, pnlReq, pnlResp, tradeReq, tradeResp,
                   rechargeOpen, rechLoading, rechError>>
    /\ UNCHANGED notUi

\* POST /buyer/recharge ends in an error.
ServeRechargeFail ==
    /\ rechReq # None
    /\ rechResp = None
    /\ rechResp' = [ok |-> FALSE, balance |-> 0]
    /\ rechReq' = None
    /\ UNCHANGED <<cBalance, tradeOpen, selectedSeller, side, loading, error, pnl,
                   balReq, balResp, pnlReq, pnlResp, tradeReq, tradeResp,
                   rechargeOpen, rechLoading, rechError>>
    /\ UNCHANGED dbVars
    /\ UNCHANGED notUi

\* The recharge response reaches handleSubmit: onSuccess (handleRechargeSuccess)
\* and onClose(); or the catch branch.
DeliverRecharge ==
    /\ rechResp # None
    /\ IF rechResp.ok
       THEN /\ cBalance' = rechResp.balance
            /\ rechargeOpen' = FALSE
            /\ UNCHANGED rechError
       ELSE /\ rechError' = TRUE
            /\ UNCHANGED <<cBalance, rechargeOpen>>
    /\ rechLoading' = FALSE
    /\ rechResp' = None
    /\ UNCHANGED <<tradeOpen, selectedSeller, side, loading, error, pnl, balReq,
                   balResp, pnlReq, pnlResp, tradeReq, tradeResp, rechReq>>
    /\ UNCHANGED dbVars
    /\ UNCHANGED notUi

\* RechargeDialog.handleClose
CloseRecharge ==
    /\ rechargeOpen /\ ~rechLoading
    /\ rechError' = FALSE
    /\ rechargeOpen' = FALSE
    /\ UNCHANGED <<cBalance, tradeOpen, selectedSeller, side, loading, error, pnl,
                   balReq, balResp, pnlReq, pnlResp, tradeReq, tradeResp,
                   rechLoading, rechReq, rechResp>>
    /\ UNCHANGED dbVars
    /\ UNCHANGED notUi

Next ==
    \/ \E s \in ListedSellers, p \in ListedPrices : HandleSelectSeller(s, p)
    \/ \E sd \in Sides : HandleSideChange(sd)
    \/ \E q \in QuantityInputs : HandleSubmit(q)
    \/ HandleClose
    \/ ServeTrade
    \/ ServeTradeFail
    \/ DeliverTrade
    \/ ServeGetBalance
    \/ \E b \in balResp : DeliverBalance(b)
    \/ \E s \in Sellers : ServeGetPnL(s)
    \/ \E r \in pnlResp : DeliverPnL(r)
    \/ \E s \in Sellers : FailPnL(s)
    \/ OpenRecharge
    \/ \E a \in AmountInputs : RechargeSubmit(a)
    \/ ServeRecharge
    \/ ServeRechargeFail
    \/ DeliverRecharge
    \/ CloseRecharge

Spec == Init /\ [][Next]_vars

\* ------------------------------------------- concurrent server requests
TxnIds == 1..MaxTxns

\* The checks of TradeDialog.handleSubmit, made against up-to-date data.
ClientAccepts(bal, log, b, s, p, q, sd) ==
    /\ q > 0
    /\ ~(sd = "buy" /\ p * q > bal[b])
    /\ ~(sd = "sell" /\ q > Shares(log, b, s))

Staged(x) == ExecuteTradeBalances(x.readB, x.readS, x.qty * x.price, x.side)

\* A trade request that passed the dialog's checks reaches execute_trade.
BeginTrade(t, b, s, p, q, sd) ==
    /\ txns[t].pc \in {"idle", "done", "failed"}
    /\ ClientAccepts(balance, trades, b, s, p, q, sd)
    /\ txns' = [txns EXCEPT ![t] = [IdleTxn EXCEPT !.pc = "begun", !.kind = "trade",
                                    !.buyer = b, !.seller = s, !.price = p,
                                    !.qty = q, !.side = sd]]
    /\ UNCHANGED <<rowLock, recharged>>
    /\ UNCHANGED dbVars
    /\ UNCHANGED notTx

\* execute_trade: Balance.query.filter_by(...).first() for both users (no row lock).
TradeRead(t) ==
    /\ txns[t].pc = "begun" /\ txns[t].kind = "trade"
    /\ txns' = [txns EXCEPT ![t].pc = "read",
                            ![t].readB = balance[txns[t].buyer],
                            ![t].readS = balance[txns[t].seller]]
    /\ UNCHANGED <<rowLock, recharged>>
    /\ UNCHANGED dbVars
    /\ UNCHANGED notTx

\* execute_trade: the updates and db.session.commit(); the UPDATEs wait for row locks.
TradeCommit(t) ==
    LET x == txns[t]
        total == x.qty * x.price
    IN  /\ x.pc = "read" /\ x.kind = "trade"
        /\ rowLock[x.buyer] = 0 /\ rowLock[x.seller] = 0
        /\ Len(trades) < MaxTrades
        /\ balance' = CommitBalances(balance, x.buyer, x.seller, Staged(x))
        /\ trades' = AppendTrade(trades, Tx(x.buyer, x.seller, x.price, x.qty, x.side))
        /\ txns' = [txns EXCEPT ![t] = [IdleTxn EXCEPT !.pc = "done"]]
        /\ UNCHANGED <<rowLock, recharged>>
        /\ UNCHANGED notTx

\* execute_trade raises after the in-memory updates and before the commit.
TradeFail(t) ==
    LET x == txns[t]
    IN  /\ x.pc = "read" /\ x.kind = "trade"
        /\ balance' = Rollback(balance, x.buyer, x.seller, Staged(x))
        /\ txns' = [txns EXCEPT ![t] = [IdleTxn EXCEPT !.pc = "failed"]]
        /\ UNCHANGED <<trades, rowLock, recharged>>
        /\ UNCHANGED notTx

RECURSIVE SumAmounts(_)
SumAmounts(ts) ==
    IF ts = {} THEN 0
    ELSE LET t == CHOOSE t \in ts : TRUE
         IN  txns[t].amount + SumAmounts(ts \ {t})

\* The amounts of the recharges of user u that other requests have in progress.
Pending(u, t) ==
    SumAmounts({o \in TxnIds \ {t} : /\ txns[o].kind = "recharge"
                                     /\ txns[o].buyer = u
                                     /\ txns[o].pc \in {"begun", "read"}})

\* A recharge request that passed RechargeDialog's check reaches Balance.recharge.
BeginRecharge(t, u, a) ==
    /\ txns[t].pc \in {"idle", "done", "failed"}
    /\ recharged[u] + Pending(u, t) + a <= MaxBalance
    /\ txns' = [txns EXCEPT ![t] = [IdleTxn EXCEPT !.pc = "begun", !.kind = "recharge",
                                    !.buyer = u, !.amount = a]]
    /\ UNCHANGED <<rowLock, recharged>>
    /\ UNCHANGED dbVars
    /\ UNCHANGED notTx

\* Balance.recharge: the query with_for_update() takes the row lock and reads the row.
RechargeLock(t) ==
    LET x == txns[t]
    IN  /\ x.pc = "begun" /\ x.kind = "recharge"
        /\ rowLock[x.buyer] = 0
        /\ rowLock' = [rowLock EXCEPT ![x.buyer] = t]
        /\ txns' = [txns EXCEPT ![t].pc = "read", ![t].readB = balance[x.buyer]]
        /\ UNCHANGED recharged
        /\ UNCHANGED dbVars
        /\ UNCHANGED notTx

\* The commit of a recharge that leaves its row lock behind.
RechargeCommitHoldsLock(t) ==
    LET x == txns[t]
    IN  /\ x.pc = "read" /\ x.kind = "recharge"
        /\ balance' = [balance EXCEPT ![x.buyer] = RechargeBalance(x.readB, x.amount)]
        /\ recharged' = [recharged EXCEPT ![x.buyer] = @ + x.amount]
        /\ txns' = [txns EXCEPT ![t] = [IdleTxn EXCEPT !.pc = "done"]]
        /\ UNCHANGED <<trades, rowLock>>
        /\ UNCHANGED notTx

\* Balance.recharge: balance.balance += amount; db.session.commit() releases the lock.
RechargeCommit(t) ==
    LET x == txns[t]
    IN  /\ x.pc = "read" /\ x.kind = "recharge"
        /\ balance' = [balance EXCEPT ![x.buyer] = RechargeBalance(x.readB, x.amount)]
        /\ rowLock' = [rowLock EXCEPT ![x.buyer] = 0]
        /\ recharged' = [recharged EXCEPT ![x.buyer] = @ + x.amount]
        /\ txns' = [txns EXCEPT ![t] = [IdleTxn EXCEPT !.pc = "done"]]
        /\ UNCHANGED trades
        /\ UNCHANGED notTx

NextServer ==
    \/ \E t \in TxnIds, b \in Buyers, s \in ListedSellers, p \in ListedPrices,
          q \in Quantities, sd \in Sides : BeginTrade(t, b, s, p, q, sd)
    \/ \E t \in TxnIds : TradeRead(t)
    \/ \E t \in TxnIds : TradeCommit(t)
    \/ \E t \in TxnIds : TradeFail(t)
    \/ \E t \in TxnIds, u \in Buyers, a \in 1..MaxAmount : BeginRecharge(t, u, a)
    \/ \E t \in TxnIds : RechargeLock(t)
    \/ \E t \in TxnIds : RechargeCommit(t)

SpecServer == Init /\ [][NextServer]_vars

\* The server under fair scheduling: every request thread keeps running.  A
\* thread that waits for a row lock gets it when the lock is free often
\* enough (the lock queue of the database); a thread in execute_trade ends
\* with its commit or by raising.
FairServer ==
    \A t \in TxnIds :
        /\ WF_vars(TradeRead(t))
        /\ SF_vars(TradeCommit(t) \/ TradeFail(t))
        /\ SF_vars(RechargeLock(t))
        /\ WF_vars(RechargeCommit(t))

\* The requests of the fair server: single shares and single units of money,
\* the waiting for locks being the same for every quantity and amount.
NextServerFair ==
    \/ \E t \in TxnIds, b \in Buyers, s \in ListedSellers, p \in ListedPrices,
          sd \in Sides : BeginTrade(t, b, s, p, 1, sd)
    \/ \E t \in TxnIds : TradeRead(t)
    \/ \E t \in TxnIds : TradeCommit(t)
    \/ \E t \in TxnIds : TradeFail(t)
    \/ \E t \in TxnIds, u \in Buyers : BeginRecharge(t, u, 1)
    \/ \E t \in TxnIds : RechargeLock(t)
    \/ \E t \in TxnIds : RechargeCommit(t)

SpecServerFair == Init /\ [][NextServerFair]_vars /\ FairServer


\* ------------------------------------- calculate_total_pnl on trade logs
\* The largest position the buyer has held so far: the most that TradeDialog's
\* check against an earlier PnLData.position lets a sell order carry.
RECURSIVE MaxHeld(_)
MaxHeld(log) ==
    IF log = <<>> THEN 0
    ELSE LET before == MaxHeld(SubSeq(log, 1, Len(log) - 1))
             now == Replay(log).qty
         IN  IF now > before THEN now ELSE before

\* The trade table gains a buy; the loop of calculate_total_pnl takes it in.
PnlBuy(p, q) ==
    /\ Len(pLog) < MaxLogLen
    /\ LET tx == Tx(Me, "s1", p, q, "buy")
       IN  /\ pLog' = Append(pLog, tx)
           /\ pState' = ApplyTx(pState, tx)
    /\ UNCHANGED pPrice
    /\ UNCHANGED notPnl

\* The trade table gains a sell; the loop of calculate_total_pnl takes it in.
PnlSell(p, q) ==
    /\ Len(pLog) < MaxLogLen
    /\ q <= MaxHeld(pLog)
    /\ LET tx == Tx(Me, "s1", p, q, "sell")
       IN  /\ pLog' = Append(pLog, tx)
           /\ pState' = ApplyTx(pState, tx)
    /\ UNCHANGED pPrice
    /\ UNCHANGED notPnl

\* A seller uploads a price: the price table gains the seller's latest record.
PnlPrice(s, p) ==
    /\ pPrice[s] # [price |-> p]
    /\ pPrice' = [pPrice EXCEPT ![s] = [price |-> p]]
    /\ UNCHANGED <<pLog, pState>>
    /\ UNCHANGED notPnl

NextPnl ==
    \/ \E p \in Prices, q \in Quantities : PnlBuy(p, q)
    \/ \E p \in Prices, q \in Quantities : PnlSell(p, q)
    \/ \E s \in ListedSellers, p \in Prices : PnlPrice(s, p)

SpecPnl == Init /\ [][NextPnl]_vars

\* --------------------------- calculate_total_pnl on a two-seller portfolio
\* The buyer trades with both sellers; sells stay within the position of the
\* pair, as TradeDialog checks them against PnLData.position.
PortfolioBuy(s, p, q) ==
    /\ Len(pLog) < MaxPortfolioLen
    /\ LET tx == Tx(Me, s, p, q, "buy")
       IN  /\ pLog' = Append(pLog, tx)
           /\ pState' = ApplyTx(pState, tx)
    /\ UNCHANGED pPrice
    /\ UNCHANGED notPnl

PortfolioSell(s, p, q) ==
    /\ Len(pLog) < MaxPortfolioLen
    /\ q <= Shares(pLog, Me, s)
    /\ LET tx == Tx(Me, s, p, q, "sell")
       IN  /\ pLog' = Append(pLog, tx)
           /\ pState' = ApplyTx(pState, tx)
    /\ UNCHANGED pPrice
    /\ UNCHANGED notPnl

NextPortfolio ==
    \/ \E s \in Sellers, p \in Prices, q \in Quantities : PortfolioBuy(s, p, q)
    \/ \E s \in Sellers, p \in Prices, q \in Quantities : PortfolioSell(s, p, q)
    \/ \E s \in Sellers, p \in Prices : PnlPrice(s, p)

SpecPortfolio == Init /\ [][NextPortfolio]_vars

\* ------------------------------------------ the buyer's browser, the market
\* The buyer dashboard with its seller list, while the sellers publish prices.

\* GET /prices/sellers: every seller with its latest price record, if any.
SellersResponse(latest) == {[id |-> s, latestPrice |-> latest[s]] : s \in Sellers}

\* SellerList.loadSellers, the request answered.  The list loads when it
\* mounts and when the search field changes, which no open dialog allows.
LoadSellers ==
    /\ sellers = {} \/ (~tradeOpen /\ ~rechargeOpen)
    /\ sellers' = SellersResponse(pPrice)
    /\ sellers' # sellers
    /\ UNCHANGED <<searchVars, refreshVars, notBuyer>>

\* The trade button of a row of the list enabled for every row.
CanTradeAlways(seller) == TRUE

\* The trade button of a row of the list: disabled={!seller.latestPrice}
CanTrade(seller) == seller.latestPrice # None

\* TradeDialog: const price = seller?.latestPrice?.price || 0
DialogPrice(seller) ==
    IF seller.latestPrice = None THEN 0 ELSE seller.latestPrice.price

\* The trade button of a row: onSelectSeller(seller).
SelectFromList(row) ==
    /\ Len(trades) < MaxMarketTrades
    /\ row \in sellers
    /\ CanTrade(row)
    /\ HandleSelectSeller(row.id, DialogPrice(row))

NextMarket ==
    \/ \E s \in ListedSellers, p \in Prices : PnlPrice(s, p)
    \/ LoadSellers
    \/ \E row \in sellers : SelectFromList(row)
    \/ \E sd \in Sides : HandleSideChange(sd)
    \/ \E q \in Quantities : HandleSubmit(ToString(q))
    \/ HandleClose
    \/ ServeTrade
    \/ DeliverTrade
    \/ ServeGetBalance
    \/ \E b \in balResp : DeliverBalance(b)
    \/ \E s \in Sellers : ServeGetPnL(s)
    \/ \E r \in pnlResp : DeliverPnL(r)
    \/ OpenRecharge
    \/ \E a \in 1..MaxAmount : RechargeSubmit(ToString(a))
    \/ ServeRecharge
    \/ DeliverRecharge
    \/ CloseRecharge

SpecMarket == Init /\ [][NextMarket]_vars

\* ------------------------------- the buyer's browser, trading two sellers
\* The dialog is opened for either seller, closed and opened again.
NextDialog ==
    \/ \E s \in Sellers, p \in ListedPrices :
          Len(trades) < MaxDialogTrades /\ HandleSelectSeller(s, p)
    \/ \E sd \in Sides : HandleSideChange(sd)
    \/ \E q \in Quantities : HandleSubmit(ToString(q))
    \/ HandleClose
    \/ ServeTrade
    \/ DeliverTrade
    \/ ServeGetBalance
    \/ \E b \in balResp : DeliverBalance(b)
    \/ \E s \in Sellers : ServeGetPnL(s)
    \/ \E r \in pnlResp : DeliverPnL(r)
    \/ OpenRecharge
    \/ \E a \in 1..MaxAmount : RechargeSubmit(ToString(a))
    \/ ServeRecharge
    \/ DeliverRecharge
    \/ CloseRecharge

SpecDialog == Init /\ [][NextDialog]_vars

\* ------------------------------------------------ the search of SellerList
\* The buyer types in the search field while requests are on their way.

\* What the buyer types: nothing, or the name of a seller.
Queries == {""} \cup Sellers

\* The delay of the debounce effect, in ms.
DebounceMs == 500

\* GET /prices/sellers?search=: the sellers whose name matches, all without one.
SearchResponse(latest, search) ==
    {row \in SellersResponse(latest) : search = "" \/ row.id = search}

\* onChange of the field: setSearchQuery; the effect on [searchQuery] clears
\* the pending timer and sets a new one.
TypeQuery(q) ==
    /\ q # searchQuery
    /\ searchQuery' = q
    /\ timerOn' = TRUE
    /\ elapsed' = 0
    /\ UNCHANGED <<debouncedSearch, searchReq, listVars, refreshVars, notBuyer>>

\* Time passes without a keystroke, a part of the delay at a time; a pending
\* timer does not stay behind its time.
Wait ==
    /\ elapsed < DebounceMs
    /\ elapsed' = elapsed + DebounceMs \div TicksPerDelay
    /\ UNCHANGED <<searchQuery, debouncedSearch, timerOn, searchReq, listVars,
                   refreshVars, notBuyer>>

\* The timer fires: setDebouncedSearch(searchQuery); when the value is new,
\* the effect on [debouncedSearch] calls loadSellers up to its request.
DebounceFires ==
    /\ timerOn
    /\ elapsed >= DebounceMs
    /\ timerOn' = FALSE
    /\ debouncedSearch' = searchQuery
    /\ IF searchQuery # debouncedSearch
       THEN /\ Cardinality(searchReq) < MaxSearchInflight
            /\ searchReq' = searchReq \cup {searchQuery}
       ELSE UNCHANGED searchReq
    /\ UNCHANGED <<searchQuery, elapsed, listVars, refreshVars, notBuyer>>

\* loadSellers after its request: setSellers(response.data.sellers).
DeliverSellers(search) ==
    /\ search \in searchReq
    /\ searchReq' = searchReq \ {search}
    /\ sellers' = SearchResponse(pPrice, search)
    /\ UNCHANGED <<searchQuery, debouncedSearch, timerOn, elapsed, refreshVars, notBuyer>>

NextSearch ==
    \/ \E q \in Queries : TypeQuery(q)
    \/ Wait
    \/ DebounceFires
    \/ \E search \in Queries : DeliverSellers(search)

SpecSearch == Init /\ [][NextSearch]_vars

\* ---------------------------------- the buyer's browser, after a trade
\* The components of the dashboard that show data derived from the trades.
\* An effect runs when a value of its dependency list has changed.

\* GET /buyer/trades: the trades of the buyer.
TradesResponse(log) == BuyerLog(log, Me)

\* GET /buyer/holdings: the shares the buyer holds of each seller traded with.
HoldingsResponse(log) ==
    {[sellerId |-> s, shares |-> Shares(log, Me, s)] :
        s \in {x \in Sellers : PairLog(log, Me, x) # <<>>}}

\* loadHoldings: response.data.holdings.filter((h) => h.shares > 0)
ActiveHoldings(holdings) == {h \in holdings : h.shares > 0}

\* TradeHistory: the effect on [sellerId, refreshTrigger], up to its request.
TradeHistoryEffect ==
    /\ histKey # refreshKey
    /\ histKey' = refreshKey
    /\ histReq' = histReq + 1
    /\ UNCHANGED <<histShown, holdKey, holdReq, holdShown, cardReq, cardShown,
                   listVars, searchVars, notBuyer>>

\* TradeHistory.loadTrades after its request: setTrades(response.data.trades)
LoadTrades ==
    /\ histReq > 0
    /\ histReq' = histReq - 1
    /\ histShown' = TradesResponse(trades)
    /\ UNCHANGED <<histKey, holdKey, holdReq, holdShown, cardReq, cardShown,
                   listVars, searchVars, notBuyer>>

\* HoldingsCard: the effect on [t, refreshTrigger], up to its request.
HoldingsEffect ==
    /\ holdKey # refreshKey
    /\ holdKey' = refreshKey
    /\ holdReq' = holdReq + 1
    /\ UNCHANGED <<histKey, histReq, histShown, holdShown, cardReq, cardShown,
                   listVars, searchVars, notBuyer>>

\* HoldingsCard.loadHoldings after its request: setHoldings(activeHoldings)
LoadHoldings ==
    /\ holdReq > 0
    /\ holdReq' = holdReq - 1
    /\ holdShown' = ActiveHoldings(HoldingsResponse(trades))
    /\ UNCHANGED <<histKey, histReq, histShown, holdKey, cardReq, cardShown,
                   listVars, searchVars, notBuyer>>

\* PnLCard.loadData after its requests: setBuyerAllTimeData(allTimeRes.data).
\* Its effect is on [userRole], which never changes: it runs on mount only.
LoadPnLCard ==
    /\ cardReq > 0
    /\ cardReq' = cardReq - 1
    /\ cardShown' = TotalPnLData(trades, pPrice, Me)
    /\ UNCHANGED <<histKey, histReq, histShown, holdKey, holdReq, holdShown,
                   listVars, searchVars, notBuyer>>

NextRefresh ==
    \/ \E s \in ListedSellers, p \in ListedPrices :
          Len(trades) < MaxRefreshTrades /\ HandleSelectSeller(s, p)
    \/ \E sd \in Sides : HandleSideChange(sd)
    \/ \E q \in Quantities : HandleSubmit(ToString(q))
    \/ HandleClose
    \/ ServeTrade
    \/ DeliverTrade
    \/ ServeGetBalance
    \/ \E b \in balResp : DeliverBalance(b)
    \/ \E s \in Sellers : ServeGetPnL(s)
    \/ \E r \in pnlResp : DeliverPnL(r)
    \/ OpenRecharge
    \/ \E a \in 1..MaxAmount : RechargeSubmit(ToString(a))
    \/ ServeRecharge
    \/ DeliverRecharge
    \/ CloseRecharge
    \/ TradeHistoryEffect
    \/ LoadTrades
    \/ HoldingsEffect
    \/ LoadHoldings
    \/ LoadPnLCard

SpecRefresh == Init /\ [][NextRefresh]_vars

\* ------------------------------------------------ calls of calculatePrice
Weights == 1..MaxWeight
BaselineWeights == {100 * i : i \in 1..MaxBaseline}
BasePrices == {100 * i : i \in 0..MaxBasePrice}
Slopes == 0..MaxSlope

\* The call of calculatePrice of one run, with a weight and the seller's four coefficients.
Calculate(w, w0, p0, ku, kd) ==
    LET params == [weight |-> w, baselineWeight |-> w0, basePrice |-> p0,
                   kUp |-> ku, kDown |-> kd]
    IN  /\ cParams = None
        /\ cParams' = params
        /\ cPrice' = CalculatePrice(params)
        /\ UNCHANGED notCalc

NextCalc ==
    \E w \in Weights, w0 \in BaselineWeights, p0 \in BasePrices,
       ku \in Slopes, kd \in Slopes : Calculate(w, w0, p0, ku, kd)

SpecCalc == Init /\ [][NextCalc]_vars

\* ------------------------------------------------- the seller's browser
\* One seller, s1, with the WeightInput card of the seller dashboard; the
\* server answers each request in one step.

RegisterSellerAgain(form) ==
    /\ coef' = RegisterData(form)
    /\ setReq' = TRUE
    /\ filledReq' = filledReq \cup {wDate}
    /\ UNCHANGED <<priceTable, wLoading, wSettings, wWeight, wSession, wDate,
                   calculatedPrice, filledSessions, submitting, wError,
                   wSuccess, upReq, upWeight, upResp, upVars, setVars,
                   notSeller>>

\* RegisterForm.handleSubmit as a seller, then the dashboard mounts the
\* card: its two effects request the settings and the filled sessions.
\* The user row is written when the account is created and only then.
RegisterSeller(form) ==
    /\ coef = None
    /\ coef' = RegisterData(form)
    /\ setReq' = TRUE
    /\ filledReq' = filledReq \cup {wDate}
    /\ UNCHANGED <<priceTable, wLoading, wSettings, wWeight, wSession, wDate,
                   calculatedPrice, filledSessions, submitting, wError,
                   wSuccess, upReq, upWeight, upResp, upVars, setVars,
                   notSeller>>

\* loadSettings, the request answered.
DeliverSettings ==
    /\ setReq
    /\ setReq' = FALSE
    /\ wSettings' = SettingsOf(coef)
    /\ calculatedPrice' = EffectPrices[wWeight, wSettings']
    /\ wLoading' = FALSE
    /\ UNCHANGED <<mktVars, wWeight, wSession, wDate, filledSessions,
                   submitting, wError, wSuccess, filledReq, upReq, upWeight, upResp, upVars, setVars, notSeller>>

\* loadSettings, the request failed.
FailSettings ==
    /\ setReq
    /\ setReq' = FALSE
    /\ wError' = "failedLoadSettings"
    /\ wLoading' = FALSE
    /\ UNCHANGED <<mktVars, wSettings, wWeight, wSession, wDate,
                   calculatedPrice, filledSessions, submitting, wSuccess,
                   filledReq, upReq, upWeight, upResp, upVars, setVars,
                   notSeller>>

\* loadFilledSessions, the request answered: the server reads the filled
\* sessions of date d and the card takes them over.
LoadFilledSessions(d) ==
    /\ d \in filledReq
    /\ filledReq' = filledReq \ {d}
    /\ filledSessions' = FilledSessionsOf(priceTable, "s1", d)
    /\ wSession' = AutoSelect(wSession, filledSessions')
    /\ UNCHANGED <<mktVars, wLoading, wSettings, wWeight, wDate,
                   calculatedPrice, submitting, wError, wSuccess, setReq,
                   upReq, upWeight, upResp, upVars, setVars, notSeller>>

\* loadFilledSessions, the request failed.
FailFilled(d) ==
    /\ d \in filledReq
    /\ filledReq' = filledReq \ {d}
    /\ filledSessions' = {}
    /\ UNCHANGED <<mktVars, wLoading, wSettings, wWeight, wSession, wDate,
                   calculatedPrice, submitting, wError, wSuccess, setReq,
                   upReq, upWeight, upResp, upVars, setVars, notSeller>>

\* The date field changes; the effect on [date] loads its filled sessions.
SetDate(d) ==
    /\ ~wLoading
    /\ d # wDate
    /\ Cardinality(filledReq) < MaxFilledInflight
    /\ wDate' = d
    /\ filledReq' = filledReq \cup {d}
    /\ UNCHANGED <<mktVars, wLoading, wSettings, wWeight, wSession,
                   calculatedPrice, filledSessions, submitting, wError,
                   wSuccess, setReq, upReq, upWeight, upResp,
                   upVars, setVars, notSeller>>

\* The session select: disabled when both sessions are filled, and a filled
\* session cannot be chosen.
SetSession(sess) ==
    /\ ~wLoading
    /\ ~AllSessionsFilled(filledSessions)
    /\ sess \notin filledSessions
    /\ sess # wSession
    /\ wSession' = sess
    /\ UNCHANGED <<mktVars, wLoading, wSettings, wWeight, wDate,
                   calculatedPrice, filledSessions, submitting, wError,
                   wSuccess, setReq, filledReq, upReq, upWeight,
                   upResp, upVars, setVars, notSeller>>

\* The weight field changes (disabled unless hasValidSettings); the effect
\* on [weight, settings] sets the calculated price.
SetWeight(text) ==
    /\ ~wLoading
    /\ HasValidSettings(wSettings)
    /\ text # wWeight
    /\ wWeight' = text
    /\ calculatedPrice' = EffectPrices[text, wSettings]
    /\ UNCHANGED <<mktVars, wLoading, wSettings, wSession, wDate,
                   filledSessions, submitting, wError, wSuccess, setReq,
                   filledReq, upReq, upWeight, upResp, upVars, setVars,
                   notSeller>>

\* handleSubmit up to the request, by the submit button, which is disabled
\* unless a price is calculated and a session is free.
HandleSubmitPrice ==
    /\ ~wLoading
    /\ HasValidSettings(wSettings)
    /\ calculatedPrice # None
    /\ ~submitting
    /\ ~AllSessionsFilled(filledSessions)
    /\ Cardinality(priceTable) < MaxRecords
    /\ wError' = ""
    /\ wSuccess' = ""
    /\ submitting' = TRUE
    /\ upReq' = UploadRequest(wWeight, wSession, wDate, calculatedPrice)
    /\ upWeight' = wWeight
    /\ UNCHANGED <<mktVars, wLoading, wSettings, wWeight, wSession, wDate,
                   calculatedPrice, filledSessions, setReq, filledReq,
                   upResp, upVars, setVars, notSeller>>

\* The server answers POST /seller/upload-price.
ServeUpload ==
    /\ upReq # None
    /\ LET r == UploadPrice(priceTable, "s1", upReq)
       IN /\ priceTable' = r.table
          /\ upResp' = [ok |-> r.ok]
    /\ upReq' = None
    /\ UNCHANGED <<coef, wLoading, wSettings, wWeight, wSession, wDate,
                   calculatedPrice, filledSessions, submitting, wError,
                   wSuccess, setReq, filledReq, upWeight, upVars, setVars,
                   notSeller>>

\* handleSubmit after the request: on success the form is cleared and the
\* filled sessions are loaded again, on failure the error is shown.
DeliverUpload ==
    /\ upResp # None
    /\ IF upResp.ok
       THEN /\ wSuccess' = "uploadSuccess"
            /\ wWeight' = None
            /\ calculatedPrice' = None
            /\ filledReq' = filledReq \cup {wDate}
            /\ UNCHANGED wError
       ELSE /\ wError' = "uploadError"
            /\ UNCHANGED <<wSuccess, wWeight, calculatedPrice, filledReq>>
    /\ submitting' = FALSE
    /\ upResp' = None
    /\ upWeight' = None
    /\ UNCHANGED <<mktVars, wLoading, wSettings, wSession, wDate,
                   filledSessions, setReq, upReq, upVars, setVars,
                   notSeller>>

\* SellerSettings.loadSettings, the request answered: the card shows the
\* four coefficients in disabled, read-only fields and has no way to submit.
LoadSellerSettings ==
    /\ coef # None
    /\ sCard.loading
    /\ sCard' = [sCard EXCEPT !.formData = FormDataOf(SettingsOf(coef)),
                              !.loading = FALSE]
    /\ UNCHANGED <<mktVars, wVars, upVars, notSeller>>

\* SellerSettings.loadSettings, the request failed.
FailSellerSettings ==
    /\ coef # None
    /\ sCard.loading
    /\ sCard' = [sCard EXCEPT !.error = "failedLoadSettings",
                              !.loading = FALSE]
    /\ UNCHANGED <<mktVars, wVars, upVars, notSeller>>

NextPrice ==
    \/ \E form \in RegisterForms : RegisterSeller(form)
    \/ DeliverSettings
    \/ FailSettings
    \/ \E d \in Dates : LoadFilledSessions(d)
    \/ \E d \in Dates : FailFilled(d)
    \/ \E d \in Dates : SetDate(d)
    \/ \E sess \in Sessions : SetSession(sess)
    \/ \E text \in WeightTexts \cup {None} : SetWeight(text)
    \/ HandleSubmitPrice
    \/ ServeUpload
    \/ DeliverUpload
    \/ LoadSellerSettings
    \/ FailSellerSettings

SpecPrice == Init /\ [][NextPrice]_vars

\* ---------------------------------------------- concurrent price uploads
\* POST /seller/upload-price requests of several sessions of the sellers,
\* interleaved: each first looks the session up and then inserts its row.

UploadPrices == 1..MaxUploadPrice
UploadRequests == [date : {Today}, session : Sessions, price : UploadPrices]

BeginUpload(t, s, req) ==
    /\ upTxns[t].pc = "idle"
    /\ upTxns' = [upTxns EXCEPT ![t] = [pc |-> "check", seller |-> s, req |-> req]]
    /\ UNCHANGED <<mktVars, wVars, setVars, notSeller>>

UploadCheck(t) ==
    /\ upTxns[t].pc = "check"
    /\ upTxns' = [upTxns EXCEPT ![t].pc =
           IF upTxns[t].req.session
                \in FilledSessionsOf(priceTable, upTxns[t].seller, upTxns[t].req.date)
           THEN "rejected" ELSE "insert"]
    /\ UNCHANGED <<mktVars, wVars, setVars, notSeller>>

UploadInsert(t) ==
    /\ upTxns[t].pc = "insert"
    /\ LET r == InsertPrice(priceTable, upTxns[t].seller, upTxns[t].req)
       IN /\ priceTable' = r.table
          /\ upTxns' = [upTxns EXCEPT ![t].pc = IF r.ok THEN "done" ELSE "rejected"]
    /\ UNCHANGED <<coef, wVars, setVars, notSeller>>

NextUpload ==
    \/ \E t \in 1..MaxUploads, s \in Sellers, req \in UploadRequests :
         BeginUpload(t, s, req)
    \/ \E t \in 1..MaxUploads : UploadCheck(t)
    \/ \E t \in 1..MaxUploads : UploadInsert(t)

SpecUpload == Init /\ [][NextUpload]_vars

\* ================================================================ claims

\* C1: after any sequence of recharges, buys and sells, every buyer's balance
\* is >= 0 in every reachable state.
BuyerBalanceNonNegative == \A b \in Buyers : balance[b] >= 0

\* The server is handling the trade request in this step.
TradeServed == tradeReq # None /\ tradeReq' = None

\* C2: a buy of quantity q at price p by a buyer whose balance is below p*q is
\* rejected and changes nothing; a buy with balance >= p*q that goes through
\* takes exactly p*q from the buyer and gives exactly p*q to the seller.
BuyRequiresFunds ==
    [][(TradeServed /\ tradeReq.side = "buy") =>
         LET r == tradeReq
             total == r.price * r.quantity
         IN  IF balance[Me] < total
             THEN ~tradeResp'.ok /\ UNCHANGED dbVars
             ELSE tradeResp'.ok =>
                    /\ balance'[Me] = balance[Me] - total
                    /\ balance'[r.sellerId] = balance[r.sellerId] + total]_vars

\* C3: a sell of quantity q on a (buyer, seller) pair holding fewer than q shares
\* is rejected, and the rejection leaves both balances, the position and the
\* trade log unchanged.
SellRequiresPosition ==
    [][(/\ TradeServed
        /\ tradeReq.side = "sell"
        /\ tradeReq.quantity > Shares(trades, Me, tradeReq.sellerId)) =>
         ~tradeResp'.ok /\ UNCHANGED dbVars]_vars

\* The request in slot t is a trade whose handler ends in this step.
TradeEnds(t) ==
    /\ txns[t].kind = "trade" /\ txns[t].pc = "read"
    /\ txns'[t].pc \in {"done", "failed"}

\* C4: for every executed trade, the change in the buyer's balance plus the
\* change in the seller's balance, over the step that commits it, is exactly zero.
Conservation ==
    [][\A t \in TxnIds :
         (TradeEnds(t) /\ txns'[t].pc = "done") =>
           (balance'[txns[t].buyer] - balance[txns[t].buyer])
             + (balance'[txns[t].seller] - balance[txns[t].seller]) = 0]_vars

RECURSIVE TradeDelta(_, _)
TradeDelta(log, u) ==
    IF log = <<>> THEN 0
    ELSE LET tx == log[Len(log)]
             total == tx.price * tx.qty
             toBuyer == IF tx.side = "buy" THEN -total ELSE total
         IN  TradeDelta(SubSeq(log, 1, Len(log) - 1), u)
               + (IF tx.buyer = u THEN toBuyer ELSE 0)
               + (IF tx.seller = u THEN -toBuyer ELSE 0)

Quiescent == \A t \in TxnIds : txns[t].pc \notin {"begun", "read"}

\* C7: when balance adjustments of one user run concurrently, the final balance
\* is the initial balance plus the sum of all accepted deltas, and no
\* interleaving drives a buyer's balance negative.
AtomicAdjust ==
    /\ Quiescent =>
         \A u \in Users :
           balance[u] = (IF u \in Buyers THEN recharged[u] ELSE 0) + TradeDelta(trades, u)
    /\ \A b \in Buyers : balance[b] >= 0

\* The quantity of the pair's trades of one side.
RECURSIVE SideQty(_, _, _, _)
SideQty(log, b, s, sd) ==
    IF log = <<>> THEN 0
    ELSE LET tx == log[Len(log)]
         IN  SideQty(SubSeq(log, 1, Len(log) - 1), b, s, sd)
               + (IF tx.buyer = b /\ tx.seller = s /\ tx.side = sd THEN tx.qty ELSE 0)

\* C8: concurrent trades on one (buyer, seller) position are serialized: the
\* position is the one that some one-after-the-other order of the trades gives,
\* so the sells of a pair never sell more shares than the pair has bought.
ConcurrentSellsWithinPosition ==
    \A b \in Buyers, s \in Sellers :
      SideQty(trades, b, s, "sell") <= SideQty(trades, b, s, "buy")

\* C9: a buy of q shares at price p sets newShares = oldShares + q and
\* newCostBasis = (oldShares*oldCostBasis + q*p) / newShares (p when oldShares = 0);
\* a sell of q <= oldShares sets newShares = oldShares - q and leaves the cost
\* basis of the remaining shares unchanged.
AverageCostUpdate ==
    [][(pLog' # pLog /\ pState.qty >= 0) =>
         LET tx == pLog'[Len(pLog')]
             old == pState
             new == pState'
         IN  IF tx.side = "buy"
             THEN /\ new.qty = old.qty + tx.qty
                  /\ AvgCost(new) =
                       IF old.qty = 0 THEN RInt(tx.price)
                       ELSE RDivInt(RAdd(RMul(RInt(old.qty), AvgCost(old)),
                                         RInt(tx.qty * tx.price)), new.qty)
             ELSE tx.qty <= old.qty =>
                    /\ new.qty = old.qty - tx.qty
                    /\ new.qty > 0 => AvgCost(new) = AvgCost(old)]_vars

\* The sum, over the sells of the log, of (price - cost basis before the sell) * quantity.
RECURSIVE SumOverSells(_)
SumOverSells(log) ==
    IF log = <<>> THEN RInt(0)
    ELSE LET before == SubSeq(log, 1, Len(log) - 1)
             tx == log[Len(log)]
         IN  IF tx.side = "sell"
             THEN RAdd(SumOverSells(before),
                       RMul(RSub(RInt(tx.price), AvgCost(Replay(before))), RInt(tx.qty)))
             ELSE SumOverSells(before)

\* C10: realized P&L is the sum, over every sell of the replayed trade log, of
\* (sell price - cost basis held just before that sell) * sell quantity; buys
\* contribute nothing.
RealizedIsSumOverSells ==
    \A b \in Buyers :
      Replay(BuyerLog(trades, b)).realized = SumOverSells(BuyerLog(trades, b))

\* C12: unrealized P&L is (latest price of the traded seller - cost basis) *
\* remaining shares, rounded to cents, and is 0 when the seller has no price
\* record yet or when no shares remain.
UnrealizedIsMarkToMarket ==
    \A s \in ListedSellers :
      LET st == Replay(PairLog(pLog, Me, s))
          got == CalculateTotalPnl(pLog, pPrice, Me).unrealized_pnl
      IN  st.qty >= 0 =>
            got = IF st.qty = 0 \/ pPrice[s] = None THEN RInt(0)
                  ELSE Round2(RMul(RSub(RInt(pPrice[s].price), AvgCost(st)), RInt(st.qty)))

\* The price * quantity of the trades of one side, over the whole log.
RECURSIVE SideAmount(_, _)
SideAmount(log, sd) ==
    IF log = <<>> THEN 0
    ELSE LET tx == log[Len(log)]
         IN  SideAmount(SubSeq(log, 1, Len(log) - 1), sd)
               + (IF tx.side = sd THEN tx.price * tx.qty ELSE 0)

ExactPrice(params, k) ==
    params.basePrice * 100 + (params.weight * 10 - params.baselineWeight) * k

\* The slope the formula takes for the weight.
SlopeFor(params) ==
    IF params.weight * 10 >= params.baselineWeight THEN params.kUp ELSE params.kDown

\* C15: the derived price before rounding is P0 + (w - W0) * kUp when w >= W0 and
\* P0 + (w - W0) * kDown when w < W0, computed in double arithmetic (so within
\* double rounding of the exact value), and exactly P0 at w = W0.
PiecewiseLinear ==
    cParams # None =>
      LET k == SlopeFor(cParams)
          w == Tenths(cParams.weight)
          w0 == Hundredths(cParams.baselineWeight)
          p0 == Hundredths(cParams.basePrice)
      IN  /\ cPrice.price = FAdd(p0, FMul(FSub(w, w0), Hundredths(k)))
          /\ WithinRounding(cPrice.price, ExactPrice(cParams, k))
          /\ cParams.weight * 10 = cParams.baselineWeight => cPrice.price = p0

\* calculatePrice has been called at the baseline weight with different slopes.
AtBaselineWeight ==
    /\ cParams # None
    /\ cParams.weight * 10 = cParams.baselineWeight
    /\ cParams.kUp # cParams.kDown

\* C16: the result is the unrounded price of the fixed-point inputs rounded to
\* the nearest cent, a price exactly half-way between two cents going up.
RoundsHalfUp ==
    cParams # None =>
      cPrice.cents = (ExactPrice(cParams, SlopeFor(cParams)) + 50) \div 100

\* A user row of a seller with a coefficient left NULL.
Incomplete(row) == row # None /\ \E c \in CoefNames : row[c] = None

\* C17: while any of the four coefficients of the seller is unset, the upload
\* card shows the configuration warning, no price is calculated and no
\* upload request is sent, so that no price is ever stored.
NoPriceWithoutCoefficients ==
    Incomplete(coef) =>
        /\ ~wLoading => ~HasValidSettings(wSettings)
        /\ calculatedPrice = None
        /\ upReq = None
        /\ upResp = None
        /\ priceTable = {}

\* The settings of a seller with an unset coefficient have been loaded.
IncompleteSettingsLoaded ==
    Incomplete(coef) /\ ~wLoading /\ wSettings # None

\* C18: a weight that is not a positive number (zero or negative, of the
\* numbers the field accepts) produces no price, and no upload request is
\* sent for it.
PositiveWeightOnly ==
    /\ (wWeight # None /\ wWeight.tenths <= 0) => calculatedPrice = None
    /\ upReq # None => upWeight.tenths > 0

\* C19: the upload request is determined by the date, the session and the
\* price: any other weight that derives the same price would send the same
\* request; and a stored price record holds the columns of the price table
\* only, none of them the weight.
WeightStaysLocal ==
    [][/\ (upReq = None /\ upReq' # None) =>
            \A text \in WeightTexts :
                EffectPrice(text, wSettings) = calculatedPrice =>
                    UploadRequest(text, wSession, wDate, calculatedPrice) = upReq'
       /\ \A r \in priceTable' :
            DOMAIN r = {"id", "sellerId", "date", "session", "price"}]_vars

\* An upload is on its way whose price another weight derives too.
SamePriceOtherWeight ==
    /\ upReq # None
    /\ \E text \in WeightTexts :
         /\ text # upWeight
         /\ EffectPrice(text, wSettings) = [cents |-> upReq.price]

UploadKey(t) == KeyOf(upTxns[t].seller, upTxns[t].req)

\* C20: the price table never holds two records of one (sellerId, date,
\* session); no step removes or changes a record; and an upload is accepted
\* only when no record of its key exists, under any interleaving of uploads.
OneRecordPerSession ==
    [][/\ \A r1, r2 \in priceTable' : RowKey(r1) = RowKey(r2) => r1 = r2
       /\ priceTable \subseteq priceTable'
       /\ \A t \in 1..MaxUploads :
            (upTxns[t].pc # "done" /\ upTxns'[t].pc = "done")
                => RowsOf(priceTable, UploadKey(t)) = {}]_vars

\* Of two uploads for one session, one was accepted and the other rejected.
FilledSessionRejected ==
    \E t1, t2 \in 1..MaxUploads :
        /\ upTxns[t1].pc = "done"
        /\ upTxns[t2].pc = "rejected"
        /\ UploadKey(t1) = UploadKey(t2)

RechargeValidated ==
    [][/\ (rechReq = None /\ rechReq' # None) => rechReq'.amount > 0
       /\ (rechReq # None /\ rechReq' = None /\ ~rechResp'.ok) =>
              balance' = balance
       /\ (rechReq # None /\ rechReq' = None /\ rechResp'.ok) =>
              /\ balance'[Me] = balance[Me] + rechReq.amount
              /\ balance'[Me] > balance[Me]
              /\ \A u \in Users \ {Me} : balance'[u] = balance[u]]_vars

\* A recharge was accepted and its answer is on the way to the dialog.
RechargeAccepted ==
    /\ rechResp # None
    /\ rechResp.ok
    /\ balance[Me] = rechResp.balance

RECURSIVE SumOver(_, _)
SumOver(f, S) ==
    IF S = {} THEN 0
    ELSE LET u == CHOOSE u \in S : TRUE
         IN  f[u] + SumOver(f, S \ {u})

\* C27: in every state the sum of the balances of all users equals the sum
\* of the amounts of all accepted recharges.
MoneyConserved ==
    SumOver(balance, Users) = SumOver(recharged, Buyers)

\* The P&L of one (buyer, seller) pair: the realized P&L of the pair's own
\* trades plus (the seller's latest price - the pair's cost basis) * its shares.
PairPnl(log, latest, b, s) ==
    LET st == Replay(PairLog(log, b, s))
    IN  RAdd(st.realized,
             IF Shares(log, b, s) > 0 /\ latest[s] # None
             THEN RMul(RSub(RInt(latest[s].price), CostBasis(log, b, s)),
                       RInt(Shares(log, b, s)))
             ELSE RInt(0))

RECURSIVE SumPairPnl(_, _, _, _)
SumPairPnl(log, latest, b, S) ==
    IF S = {} THEN RInt(0)
    ELSE LET s == CHOOSE s \in S : TRUE
         IN  RAdd(PairPnl(log, latest, b, s), SumPairPnl(log, latest, b, S \ {s}))

\* C28: the all-positions P&L of the buyer equals the sum, over the sellers,
\* of the P&L of the (buyer, seller) pair, each computed from that pair's own
\* shares and cost basis and that seller's latest price.
AggregateIsSumOfPairs ==
    CalculateTotalPnl(pLog, pPrice, Me).total_pnl
        = Round2(SumPairPnl(pLog, pPrice, Me, Sellers))

TradeAtLatestPrice ==
    [][trades' # trades =>
         LET tx == trades'[Len(trades')]
         IN  /\ pPrice[tx.seller] # None
             /\ tx.price = pPrice[tx.seller].price
             /\ tx.price = tradeReq.price]_vars

\* C24: no trade is requested or executed against a seller who has published
\* no price, and no trade request carries the fallback price 0.
NoTradeWithoutPrice ==
    /\ selectedSeller # None => pPrice[selectedSeller.id] # None
    /\ tradeReq # None =>
          /\ tradeReq.price # 0
          /\ pPrice[tradeReq.sellerId] # None
    /\ \A i \in 1..Len(trades) :
          /\ trades[i].price # 0
          /\ pPrice[trades[i].seller] # None

\* An order is on its way while the list shows a seller without a price.
OrderWhileSellerUnpriced ==
    /\ tradeReq # None
    /\ \E row \in sellers : row.latestPrice = None

\* C29: the dialog sends a sell order only when the position it checked the
\* quantity against was loaded for the seller now selected, and the quantity
\* is within that position.
SellCheckedForSelectedSeller ==
    [][(tradeReq = None /\ tradeReq' # None /\ tradeReq'.side = "sell") =>
          /\ pnl # None
          /\ pnl.of = tradeReq'.sellerId
          /\ tradeReq'.quantity <= pnl.position]_vars

\* C30: a search request is sent only for a query that has stayed unchanged
\* for the 500 ms of the delay; and when no request is outstanding the list
\* shown is the response to the latest debounced query, in whatever order the
\* responses arrived.
SearchShowsLatestQuery ==
    [][/\ \A q \in searchReq' \ searchReq :
            q = searchQuery /\ elapsed >= DebounceMs
       /\ searchReq' = {} =>
            sellers' = SearchResponse(pPrice', debouncedSearch')]_vars

\* Every effect has run and no request of the dashboard is outstanding.
ReloadsComplete ==
    /\ tradeReq = None /\ tradeResp = None
    /\ balReq = 0 /\ balResp = {}
    /\ histKey = refreshKey /\ histReq = 0
    /\ holdKey = refreshKey /\ holdReq = 0
    /\ cardReq = 0

\* C25: after a successful trade, once the reloads are complete, the cash
\* balance, the trade history, the holdings and the P&L card of the buyer
\* all show the data as it is after the trade.
NoPreTradeData ==
    (refreshKey > 0 /\ ReloadsComplete) =>
        /\ cBalance = balance[Me]
        /\ histShown = TradesResponse(trades)
        /\ holdShown = ActiveHoldings(HoldingsResponse(trades))
        /\ cardShown = TotalPnLData(trades, pPrice, Me)

====
